---- MODULE Spec2Model ----
(***************************************************************************)
(* Rally Timing Planner (rally-time).                                      *)
(*                                                                         *)
(* Three builds of the planner are modelled, selected by `variant`:        *)
(*   "target" : src/src/App.tsx      - fixed target-arrival planner        *)
(*   "now"    : src/unnamed/part_000 - planner computed from NOW           *)
(*   "setup"  : src/unnamed/part_001 - Setup + Rally Planner page          *)
(*                                                                         *)
(* Text typed in a field is a sequence of one-character strings.           *)
(* A formatted clock time "HH:MM:SS" is the tuple <<hh, mm, ss>>.          *)
(***************************************************************************)
EXTENDS Integers, Sequences, TLC

VARIABLES variant, marches, targetH, targetM, targetS, setup,
          plan, note, nowEpoch, targetEpoch, abs, nextId,
          arg, result, raw, stored, writeOk,
          oppRallyM, oppRallyS, oppMarchM, oppMarchS, offsetSec,
          players, playerNextId, launchUTC, impactUTC, impactEpoch, results

\* The state of the Reinforcement tool page.
toolVars == <<oppRallyM, oppRallyS, oppMarchM, oppMarchS, offsetSec,
              players, playerNextId, launchUTC, impactUTC, impactEpoch, results>>

vars == <<variant, marches, targetH, targetM, targetS, setup,
          plan, note, nowEpoch, targetEpoch, abs, nextId,
          arg, result, raw, stored, writeOk, toolVars>>

(***************************************************************************)
(* Bounds of the model.                                                    *)
(***************************************************************************)
MaxRows == 3

MaxListLen == 2

MaxIds == 2

MaxTotal == 4000

MaxMembers == 1

(***************************************************************************)
(* Program constants.                                                      *)
(***************************************************************************)
GAP_SECONDS == 2

RALLY_PREP_SECONDS == 5 * 60

\* Mutant: the 20s readiness of the header comment.
READINESS_SECONDS_20 == 20

READINESS_SECONDS == 40

\* Mutant: a 5-minute minimum lead.
MIN_LEAD_5 == 5 * 60

MIN_LEAD == 7 * 60

DAY_SECONDS == 24 * 3600

(***************************************************************************)
(* Text fields.                                                            *)
(***************************************************************************)
Undefined == <<"undefined">>

IsDigit(c) == c \in {"0", "1", "2", "3", "4", "5", "6", "7", "8", "9"}

DigitVal(c) ==
  CASE c = "0" -> 0 [] c = "1" -> 1 [] c = "2" -> 2 [] c = "3" -> 3
    [] c = "4" -> 4 [] c = "5" -> 5 [] c = "6" -> 6 [] c = "7" -> 7
    [] c = "8" -> 8 [] c = "9" -> 9

RECURSIVE trimStart(_)
trimStart(v) ==
  IF Len(v) > 0 /\ Head(v) = " " THEN trimStart(Tail(v)) ELSE v

RECURSIVE trimEnd(_)
trimEnd(v) ==
  IF Len(v) > 0 /\ v[Len(v)] = " " THEN trimEnd(SubSeq(v, 1, Len(v) - 1)) ELSE v

trim(v) == trimEnd(trimStart(v))

RECURSIVE DigitsValue(_, _)
DigitsValue(ds, acc) ==
  IF Len(ds) = 0 THEN acc ELSE DigitsValue(Tail(ds), acc * 10 + DigitVal(Head(ds)))

AllDigits(ds) == \A i \in 1..Len(ds) : IsDigit(ds[i])

NaN == [nan |-> TRUE, inf |-> FALSE, neg |-> FALSE, int |-> 0, frac |-> FALSE]

\* Index of the first decimal point of body, Len(body) + 1 when there is none.
RECURSIVE firstDot(_, _)
firstDot(body, i) ==
  IF i > Len(body) \/ body[i] = "." THEN i ELSE firstDot(body, i + 1)

decimalValue(ip, fp, neg) ==
  IF ~AllDigits(ip) \/ ~AllDigits(fp) \/ Len(ip) + Len(fp) = 0
  THEN NaN
  ELSE [nan |-> FALSE, inf |-> FALSE, neg |-> neg, int |-> DigitsValue(ip, 0),
        frac |-> DigitsValue(fp, 0) > 0]

Infinity(neg) == [nan |-> FALSE, inf |-> TRUE, neg |-> neg, int |-> 0, frac |-> FALSE]

splitDecimal(body, dot, neg) ==
  IF body = <<"I", "n", "f", "i", "n", "i", "t", "y">>
  THEN Infinity(neg)
  ELSE decimalValue(SubSeq(body, 1, dot - 1), SubSeq(body, dot + 1, Len(body)), neg)

signedDecimal(t) ==
  IF Head(t) \in {"-", "+"}
  THEN splitDecimal(Tail(t), firstDot(Tail(t), 1), Head(t) = "-")
  ELSE splitDecimal(t, firstDot(t, 1), FALSE)

numberOfTrimmed(t) ==
  IF Len(t) = 0 THEN [nan |-> FALSE, inf |-> FALSE, neg |-> FALSE, int |-> 0, frac |-> FALSE]
  ELSE signedDecimal(t)

\* Number(v) for text over digits, blank, sign, decimal point and letters:
\* a decimal literal with optional sign, or Infinity; anything else is NaN.
Number(v) == numberOfTrimmed(trim(v))

\* Mutant: the sign of the number is not looked at.
floorIfNonNegative_anySign(n) ==
  IF ~n.nan /\ ~n.inf THEN n.int ELSE 0

\* Number.isFinite(n) && n >= 0 ? Math.floor(n) : 0
floorIfNonNegative(n) ==
  IF ~n.nan /\ ~n.inf /\ (~n.neg \/ (n.int = 0 /\ ~n.frac)) THEN n.int ELSE 0

normalizeInt(v) ==
  IF v = Undefined \/ Len(trim(v)) = 0 THEN 0 ELSE floorIfNonNegative(Number(v))

toSecMarch(m, s) == normalizeInt(m) * 60 + normalizeInt(s)

toSec(m, s) == normalizeInt(m) * 60 + normalizeInt(s)

toSecTarget(h, m, s) == normalizeInt(h) * 3600 + normalizeInt(m) * 60 + normalizeInt(s)

hms(total) ==
  LET t == IF total < 0 THEN 0 ELSE total
  IN  <<t \div 3600, (t % 3600) \div 60, t % 60>>

fmt(epoch) == <<(epoch % DAY_SECONDS) \div 3600, (epoch % 3600) \div 60, epoch % 60>>

\* zeroPad2(m):zeroPad2(s) of a number of seconds, negative ones taken as 0
mmss(sec) ==
  LET c == IF sec < 0 THEN 0 ELSE sec
  IN  <<c \div 60, c % 60>>

\* Mutant: the hours field is dropped.
hmsToSec_noHours(str) == str[2] * 60 + str[3]

\* str.split(":").map(Number), then (hh || 0) * 3600 + (mm || 0) * 60 + (ss || 0)
hmsToSec(str) == str[1] * 3600 + str[2] * 60 + str[3]

(***************************************************************************)
(* Plan and note values.                                                   *)
(***************************************************************************)
Null == [null |-> TRUE, rows |-> <<>>]

Plan(rows) == [null |-> FALSE, rows |-> rows]

NoNote == [text |-> "", args |-> <<>>]

Note(text, args) == [text |-> text, args |-> args]

LeaderLabel(n) == "Leader " \o ToString(n)

(***************************************************************************)
(* Derived march durations.                                                *)
(***************************************************************************)
RECURSIVE find(_, _)
find(members, leader) ==
  IF Len(members) = 0 THEN <<>>
  ELSE IF Head(members).name = leader THEN <<Head(members)>>
  ELSE find(Tail(members), leader)

marchSecOrZero(found) == IF Len(found) = 0 THEN 0 ELSE found[1].marchSec

getPresetSec(leader) == marchSecOrZero(find(setup.members, leader))

\* Mutant: a custom value of zero overrides the preset as well.
customOrPreset_always(custom, row) == custom

customOrPreset(custom, row) == IF custom > 0 THEN custom ELSE getPresetSec(row.leader)

getEffectiveSec(row) == customOrPreset(toSec(row.customM, row.customS), row)

marchesWithSec ==
  [i \in 1..Len(marches) |->
     IF variant = "setup"
     THEN [id |-> marches[i].id, name |-> marches[i].leader,
           totalSec |-> getEffectiveSec(marches[i])]
     ELSE [id |-> marches[i].id, name |-> marches[i].name,
           totalSec |-> toSecMarch(marches[i].m, marches[i].s)]]

hasAtLeastOneMarch == \E i \in 1..Len(marches) : marchesWithSec[i].totalSec > 0

\* Mutant: the guard does not look at the Setup members.
isCalculateDisabled_anyMembers ==
  \/ ~hasAtLeastOneMarch
  \/ variant = "target" /\ toSecTarget(targetH, targetM, targetS) = 0
  \/ variant = "setup" /\ setup.targetLabel = ""

isCalculateDisabled ==
  \/ ~hasAtLeastOneMarch
  \/ variant = "target" /\ toSecTarget(targetH, targetM, targetS) = 0
  \/ variant = "setup" /\ (setup.targetLabel = "" \/ Len(setup.members) = 0)

\* Mutant: rows without a duration are kept.
active_all == marchesWithSec

active == SelectSeq(marchesWithSec, LAMBDA m : m.totalSec > 0)

(***************************************************************************)
(* Schedule builder.                                                       *)
(***************************************************************************)
Max(a, b) == IF a >= b THEN a ELSE b

\* active.reduce((acc, m, idx) => Math.max(acc, m.totalSec - idx * GAP_SECONDS), 0)
RECURSIVE reduceSkew(_, _, _)
reduceSkew(act, idx, acc) ==
  IF idx >= Len(act) THEN acc
  ELSE reduceSkew(act, idx + 1, Max(acc, act[idx + 1].totalSec - idx * GAP_SECONDS))

\* Mutant: the position term idx * GAP_SECONDS is forgotten.
maxSkew_noPosition(act) ==
  LET S == {act[k].totalSec : k \in 1..Len(act)} \cup {0}
  IN  CHOOSE x \in S : \A y \in S : x >= y

maxSkew(act) == reduceSkew(act, 0, 0)

\* Mutant: the readiness buffer is left out of the anchor.
firstArrivalAbs_noReadiness(act, now) == now + RALLY_PREP_SECONDS + maxSkew(act)

\* Mutant: the anchor is one gap later than the floor requires.
firstArrivalAbs_slack(act, now) ==
  now + READINESS_SECONDS + RALLY_PREP_SECONDS + maxSkew(act) + GAP_SECONDS

firstArrivalAbs(act, now) == now + READINESS_SECONDS + RALLY_PREP_SECONDS + maxSkew(act)

\* Mutant: arrivals one second apart.
arrivalAbsEpoch_noGap(first, idx) == first + idx

\* Mutant: the offset uses the 1-based sequence number.
arrivalAbsEpoch_seq(first, idx) == first + (idx + 1) * GAP_SECONDS

arrivalAbsEpoch(first, idx) == first + idx * GAP_SECONDS

\* Mutant: the march duration is added instead of subtracted.
sendAbsEpoch_plus(arrival, m) == arrival + m.totalSec

sendAbsEpoch(arrival, m) == arrival - m.totalSec

rallyStartAbsEpoch(send) == send - RALLY_PREP_SECONDS

\* Mutant: the sign of the delta is flipped.
startDeltaSec_flipped(act, idx) == (act[idx + 1].totalSec - act[1].totalSec) - idx * GAP_SECONDS

startDeltaSec(act, idx) == idx * GAP_SECONDS - (act[idx + 1].totalSec - act[1].totalSec)

\* The absolute epochs computed inside rows.map for every active march.
absRow(arrival, send) ==
  [arrival |-> arrival, send |-> send, rallyStart |-> rallyStartAbsEpoch(send)]

absRows(act, first) ==
  [k \in 1..Len(act) |->
     absRow(arrivalAbsEpoch(first, k - 1),
            sendAbsEpoch(arrivalAbsEpoch(first, k - 1), act[k]))]

rowName(m, idx) == IF m.name = "" THEN LeaderLabel(idx + 1) ELSE m.name

targetRows(act, e) ==
      [k \in 1..Len(act) |->
         [id |-> act[k].id,
          seq |-> k,
          name |-> rowName(act[k], k - 1),
          durationSec |-> act[k].totalSec,
          durationHMS |-> hms(act[k].totalSec),
          arrivalTime |-> fmt(e[k].arrival),
          sendTime |-> fmt(e[k].send),
          rallyStartTime |-> fmt(e[k].rallyStart),
          offsetSec |-> (k - 1) * GAP_SECONDS]]

nowRows(act, e) ==
      [k \in 1..Len(act) |->
         [id |-> act[k].id,
          seq |-> k,
          name |-> rowName(act[k], k - 1),
          durationSec |-> act[k].totalSec,
          durationHMS |-> hms(act[k].totalSec),
          arrivalTime |-> fmt(e[k].arrival),
          sendTime |-> fmt(e[k].send),
          rallyStartTime |-> fmt(e[k].rallyStart),
          offsetSec |-> (k - 1) * GAP_SECONDS,
          startDeltaSec |-> startDeltaSec(act, k - 1)]]

setupRows(act, e) ==
      [k \in 1..Len(act) |->
         [id |-> act[k].id,
          seq |-> k,
          name |-> rowName(act[k], k - 1),
          target |-> setup.targetLabel,
          durationSec |-> act[k].totalSec,
          durationHMS |-> hms(act[k].totalSec),
          arrivalTime |-> fmt(e[k].arrival),
          sendTime |-> fmt(e[k].send),
          rallyStartTime |-> fmt(e[k].rallyStart),
          offsetSec |-> (k - 1) * GAP_SECONDS,
          startDeltaSec |-> startDeltaSec(act, k - 1)]]

\* Date.UTC(year, month, date of now, h, m, s) / 1000
targetEpochToday(now) ==
  (now - (now % DAY_SECONDS))
    + normalizeInt(targetH) * 3600 + normalizeInt(targetM) * 60 + normalizeInt(targetS)

\* choose the next occurrence of the target time (today or tomorrow)
\* Mutant: a target equal to now is rolled to tomorrow as well.
rollTarget_le(today, now) == IF today <= now THEN today + 24 * 3600 ELSE today

rollTarget(today, now) == IF today < now THEN today + 24 * 3600 ELSE today

(***************************************************************************)
(* Inputs.                                                                 *)
(***************************************************************************)
Variants == {"target", "now", "setup"}

\* 2024-10-04 00:00:00 UTC
T0 == 20000 * DAY_SECONDS

\* Clock readings: midnight, noon, 23:58:20.
Nows == {T0, T0 + 43200, T0 + 86300}

\* (minutes, seconds) as typed: 0s, 10s, 30s, 90s, 180s, 420s
DurationInputs ==
  {<<<<"0">>, <<"0">>>>, <<<<"0">>, <<"1", "0">>>>, <<<<"0">>, <<"3", "0">>>>,
   <<<<"1">>, <<"3", "0">>>>, <<<<"3">>, <<"0">>>>, <<<<"7">>, <<"0">>>>}

\* (hours, minutes, seconds) as typed
TargetInputs ==
  {<<<<"0">>, <<"0">>, <<"0">>>>,
   <<<<"0">>, <<"5">>, <<"0">>>>,
   <<<<"1", "2">>, <<"0">>, <<"0">>>>,
   <<<<"1", "2">>, <<"6">>, <<"5", "9">>>>,
   <<<<"1", "2">>, <<"7">>, <<"0">>>>,
   <<<<"2", "3">>, <<"5", "9">>, <<"5", "9">>>>,
   <<<<"2", "5">>, <<"0">>, <<"0">>>>}

NameInputs == <<"A", "B", "C", "D", "E">>

Member(id, name, m, s) == [id |-> id, name |-> name, m |-> m, s |-> s, marchSec |-> toSec(m, s)]

Roster ==
  <<Member(101, "A", <<"0">>, <<"3", "0">>),
    Member(102, "B", <<"1">>, <<"3", "0">>),
    Member(103, "C", <<"0">>, <<"1", "0">>)>>

\* A parsed JSON value: a {targetLabel, members} record, null, or any other
\* value (which has neither field).
SetupData(targetLabel, members) ==
  [kind |-> "record", targetLabel |-> targetLabel, members |-> members]

JsonNull == [kind |-> "null", targetLabel |-> "", members |-> <<>>]

JsonOther == [kind |-> "other", targetLabel |-> "", members |-> <<>>]

EmptySetup == SetupData("", <<>>)

SetupInputs ==
  {EmptySetup,
   SetupData("", Roster),
   SetupData("Castle", <<>>),
   SetupData("Castle", Roster),
   SetupData("Castle", Append(Roster, Member(104, "", <<"3">>, <<"0">>)))}

March(id, name, m, s) == [id |-> id, name |-> name, m |-> m, s |-> s]

SetupMarch(id, leader, editing, customM, customS) ==
  [id |-> id, leader |-> leader, editing |-> editing, customM |-> customM, customS |-> customS]

blankRow(id) ==
  IF variant = "setup"
  THEN SetupMarch(id, "", "undefined", Undefined, Undefined)
  ELSE March(id, "", <<"0">>, <<"0">>)

(***************************************************************************)
(* The verification summary of a plan.                                     *)
(***************************************************************************)
\* r put behind every row of the sorted list that does not start later
\* than it (Array.prototype.sort is stable).
RECURSIVE insertByRallyStart(_, _)
insertByRallyStart(sorted, r) ==
  IF Len(sorted) = 0 THEN <<r>>
  ELSE IF hmsToSec(sorted[Len(sorted)].rallyStartTime) - hmsToSec(r.rallyStartTime) > 0
       THEN Append(insertByRallyStart(SubSeq(sorted, 1, Len(sorted) - 1), r),
                   sorted[Len(sorted)])
       ELSE Append(sorted, r)

\* [...rows].sort((a, b) => hmsToSec(a.rallyStartTime) - hmsToSec(b.rallyStartTime))
RECURSIVE byAppear(_, _)
byAppear(rows, n) ==
  IF n = 0 THEN <<>> ELSE insertByRallyStart(byAppear(rows, n - 1), rows[n])

Abs(x) == IF x < 0 THEN -x ELSE x

\* One line of the summary: who, the seconds shown, the wording and the
\* anchor MM:SS (the first line shows none of the three).
summaryLine(r, prev, delta, first) ==
  [id |-> r.id, seq |-> r.seq, name |-> r.name,
   seconds |-> IF first THEN 0 ELSE Abs(delta),
   wording |-> IF first THEN "" ELSE IF delta >= 0 THEN "more" ELSE "less",
   than |-> IF first THEN "" ELSE prev.name,
   anchor |-> IF first THEN <<0, 0>> ELSE mmss(5 * 60 - Abs(delta))]

summaryLines(sorted) ==
  [i \in 1..Len(sorted) |->
     IF i = 1
     THEN summaryLine(sorted[1], sorted[1], 0, TRUE)
     ELSE summaryLine(sorted[i], sorted[i - 1],
                      hmsToSec(sorted[i].rallyStartTime)
                        - hmsToSec(sorted[i - 1].rallyStartTime),
                      FALSE)]

\* Mutant: the lines follow the plan order, unsorted.
summary_planOrder(rows) == summaryLines(rows)

summary(rows) == summaryLines(byAppear(rows, Len(rows)))

(***************************************************************************)
(* onCalculate, one per build.                                             *)
(* The handler is modelled as a callable; the Calculate button's disabled  *)
(* attribute is isCalculateDisabled.                                       *)
(***************************************************************************)
\* Mutant: the advisory is written over the plan that is displayed.
advisory_keepPlan(text, args) ==
  /\ note' = Note(text, args)
  /\ UNCHANGED <<plan, abs>>

\* Mutant: an empty plan is displayed with the advisory.
advisory_emptyPlan(text, args) ==
  /\ plan' = Plan(<<>>)
  /\ note' = Note(text, args)
  /\ abs' = <<>>

\* setPlan(null); setNote(text); return
advisory(text, args) ==
  /\ plan' = Null
  /\ note' = Note(text, args)
  /\ abs' = <<>>

calculateTarget(act, te, now) ==
  /\ variant = "target"
  /\ nowEpoch' = now
  /\ targetEpoch' = te
  /\ IF te - now < MIN_LEAD
     THEN advisory("Target arrival must be at least 7 minutes in the future. Earliest allowed: {0}:{1}:{2} UTC.",
                   fmt(now + MIN_LEAD))
     ELSE /\ abs' = absRows(act, te)
          /\ plan' = Plan(targetRows(act, abs'))
          /\ note' = IF Len(act) > 0
                     THEN Note("Planned {0} rallies at {1}s spacing using your chosen order (top to bottom).",
                               <<Len(act), GAP_SECONDS>>)
                     ELSE NoNote
  /\ UNCHANGED <<variant, marches, targetH, targetM, targetS, setup, nextId, arg, result, raw, stored, writeOk, toolVars>>

onCalculateTarget(now) ==
  calculateTarget(active, rollTarget(targetEpochToday(now), now), now)

calculateNow(act, now) ==
  /\ variant = "now"
  /\ nowEpoch' = now
  /\ IF Len(act) = 0
     THEN advisory("Add at least one march with non-zero time.", <<>>)
     ELSE /\ abs' = absRows(act, firstArrivalAbs(act, now))
          /\ plan' = Plan(nowRows(act, abs'))
          /\ note' = Note("Arrivals are evenly spaced by {0}s. All rally starts are >={1}s from now.",
                          <<GAP_SECONDS, READINESS_SECONDS>>)
  /\ UNCHANGED <<variant, marches, targetH, targetM, targetS, setup, targetEpoch, nextId, arg, result, raw, stored, writeOk, toolVars>>

onCalculateNow(now) == calculateNow(active, now)

calculateSetup(act, now) ==
  /\ variant = "setup"
  /\ IF setup.targetLabel = ""
     THEN /\ advisory("Define a target in the Setup page first.", <<>>)
          /\ UNCHANGED nowEpoch
     ELSE IF Len(setup.members) = 0
     THEN /\ advisory("Add at least one member in the Setup page.", <<>>)
          /\ UNCHANGED nowEpoch
     ELSE IF Len(act) = 0
     THEN /\ advisory("Choose at least one leader with a non-zero duration.", <<>>)
          /\ nowEpoch' = now
     ELSE /\ abs' = absRows(act, firstArrivalAbs(act, now))
          /\ plan' = Plan(setupRows(act, abs'))
          /\ note' = Note("Arrivals are evenly spaced by {0}s. All rally starts are >={1}s from now. Target: {2}.",
                          <<GAP_SECONDS, READINESS_SECONDS, setup.targetLabel>>)
          /\ nowEpoch' = now
  /\ UNCHANGED <<variant, marches, targetH, targetM, targetS, setup, targetEpoch, nextId, arg, result, raw, stored, writeOk, toolVars>>

onCalculateSetup(now) == calculateSetup(active, now)

(***************************************************************************)
(* List operations of the planner pages.                                   *)
(***************************************************************************)
swap(list, i, j) == [list EXCEPT ![i] = list[j], ![j] = list[i]]

filterOut(list, id) == SelectSeq(list, LAMBDA x : x.id # id)

addMarch ==
  /\ Len(marches) < MaxListLen
  /\ nextId <= MaxIds
  /\ marches' = Append(marches, blankRow(nextId))
  /\ nextId' = nextId + 1
  /\ UNCHANGED <<variant, targetH, targetM, targetS, setup, plan, note, nowEpoch, targetEpoch, abs, arg, result, raw, stored, writeOk, toolVars>>

\* Mutant: removing a row also drops the displayed plan.
removeMarch_dropsPlan(id) ==
  /\ marches' = IF Len(marches) > 1 THEN filterOut(marches, id) ELSE marches
  /\ plan' = Null
  /\ note' = NoNote
  /\ UNCHANGED <<variant, targetH, targetM, targetS, setup, nowEpoch, targetEpoch, abs, nextId, arg, result, raw, stored, writeOk, toolVars>>

\* Mutant: the last row can be removed as well.
removeMarch_always(id) ==
  /\ marches' = filterOut(marches, id)
  /\ UNCHANGED <<variant, targetH, targetM, targetS, setup, plan, note, nowEpoch, targetEpoch, abs, nextId, arg, result, raw, stored, writeOk, toolVars>>

removeMarch(id) ==
  /\ marches' = IF Len(marches) > 1 THEN filterOut(marches, id) ELSE marches
  /\ UNCHANGED <<variant, targetH, targetM, targetS, setup, plan, note, nowEpoch, targetEpoch, abs, nextId, arg, result, raw, stored, writeOk, toolVars>>

updateMarch(id, field, value) ==
  /\ variant \in {"target", "now"}
  /\ marches' = [i \in 1..Len(marches) |->
                   IF marches[i].id = id
                   THEN [marches[i] EXCEPT ![field] = value]
                   ELSE marches[i]]
  /\ UNCHANGED <<variant, targetH, targetM, targetS, setup, plan, note, nowEpoch, targetEpoch, abs, nextId, arg, result, raw, stored, writeOk, toolVars>>

updateLeader(id, leader) ==
  /\ variant = "setup"
  /\ marches' = [i \in 1..Len(marches) |->
                   IF marches[i].id = id
                   THEN [marches[i] EXCEPT !.leader = leader]
                   ELSE marches[i]]
  /\ UNCHANGED <<variant, targetH, targetM, targetS, setup, plan, note, nowEpoch, targetEpoch, abs, nextId, arg, result, raw, stored, writeOk, toolVars>>

\* Mutant: the row is exchanged with the one after it.
movedUp_withNext(list, idx) ==
  IF idx <= 0 \/ idx >= Len(list) - 1 THEN list ELSE swap(list, idx + 1, idx + 2)

\* The list after moveUp(idx), idx counted from 0 as in the code.
movedUp(list, idx) == IF idx <= 0 THEN list ELSE swap(list, idx, idx + 1)

\* The list after moveDown(idx).
movedDown(list, idx) ==
  IF idx >= Len(list) - 1 THEN list ELSE swap(list, idx + 2, idx + 1)

moveUp(idx) ==
  /\ marches' = movedUp(marches, idx)
  /\ UNCHANGED <<variant, targetH, targetM, targetS, setup, plan, note, nowEpoch, targetEpoch, abs, nextId, arg, result, raw, stored, writeOk, toolVars>>

moveDown(idx) ==
  /\ marches' = movedDown(marches, idx)
  /\ UNCHANGED <<variant, targetH, targetM, targetS, setup, plan, note, nowEpoch, targetEpoch, abs, nextId, arg, result, raw, stored, writeOk, toolVars>>

toggleEdit(id, on) ==
  /\ variant = "setup"
  /\ marches' = [i \in 1..Len(marches) |->
                   IF marches[i].id = id
                   THEN [marches[i] EXCEPT !.editing =
                           IF on # "undefined" THEN on
                           ELSE IF marches[i].editing = "true" THEN "false" ELSE "true"]
                   ELSE marches[i]]
  /\ UNCHANGED <<variant, targetH, targetM, targetS, setup, plan, note, nowEpoch, targetEpoch, abs, nextId, arg, result, raw, stored, writeOk, toolVars>>

setCustom(id, field, val) ==
  /\ variant = "setup"
  /\ marches' = [i \in 1..Len(marches) |->
                   IF marches[i].id = id
                   THEN [marches[i] EXCEPT ![field] = val]
                   ELSE marches[i]]
  /\ UNCHANGED <<variant, targetH, targetM, targetS, setup, plan, note, nowEpoch, targetEpoch, abs, nextId, arg, result, raw, stored, writeOk, toolVars>>

\* { ...x, customM: undefined, customS: undefined }
withoutCustom(row) == [row EXCEPT !.customM = Undefined, !.customS = Undefined]

clearCustom(id) ==
  /\ variant = "setup"
  /\ marches' = [i \in 1..Len(marches) |->
                   IF marches[i].id = id THEN withoutCustom(marches[i]) ELSE marches[i]]
  /\ UNCHANGED <<variant, targetH, targetM, targetS, setup, plan, note, nowEpoch, targetEpoch, abs, nextId, arg, result, raw, stored, writeOk, toolVars>>

setTarget(h, m, s) ==
  /\ variant = "target"
  /\ targetH' = h
  /\ targetM' = m
  /\ targetS' = s
  /\ UNCHANGED <<variant, marches, setup, plan, note, nowEpoch, targetEpoch, abs, nextId, arg, result, raw, stored, writeOk, toolVars>>

onReset ==
  /\ nextId <= MaxIds
  /\ marches' = <<blankRow(nextId)>>
  /\ nextId' = nextId + 1
  /\ plan' = Null
  /\ note' = NoNote
  /\ IF variant = "target"
     THEN targetH' = <<"0">> /\ targetM' = <<"0">> /\ targetS' = <<"0">>
     ELSE UNCHANGED <<targetH, targetM, targetS>>
  /\ UNCHANGED <<variant, setup, nowEpoch, targetEpoch, abs, arg, result, raw, stored, writeOk, toolVars>>

(***************************************************************************)
(* The stored Setup snapshot (localStorage "kingshot_setup_v1") and the    *)
(* Setup page. An entry is absent, the empty text, text that JSON.parse    *)
(* rejects, or text that JSON.parse reads as `value`.                      *)
(***************************************************************************)
Absent == [kind |-> "absent", value |-> JsonNull]

EmptyText == [kind |-> "empty", value |-> JsonNull]

Garbage == [kind |-> "garbage", value |-> JsonNull]

\* JSON.stringify(v): the text that JSON.parse reads back as v
Json(v) == [kind |-> "json", value |-> v]

\* useState initializer of App: getItem, if (raw) return JSON.parse(raw),
\* a parse error is caught, otherwise the empty default.
loadSetup(entry) == IF entry.kind = "json" THEN entry.value ELSE EmptySetup

\* Mutant: the snapshot is written once and never again.
persist_once(entry, v, ok) == IF ok /\ entry.kind # "json" THEN Json(v) ELSE entry

\* useEffect on [setup]: setItem(JSON.stringify(setup)); a write error is
\* ignored (ok = the store accepts the write).
persist(entry, v, ok) == IF ok THEN Json(v) ELSE entry

\* The pages render setup.targetLabel and setup.members.length: they throw
\* on a value that is not a {targetLabel, members} record.
Rendered(v) == v.kind = "record"

MemberIds == {setup.members[i].id : i \in 1..Len(setup.members)}

\* cryptoRandomId(): an id no member has
freshMemberId == CHOOSE i \in 101..(101 + Len(setup.members)) : i \notin MemberIds

setTargetLabel(value, ok) ==
  /\ variant = "setup"
  /\ Rendered(setup)
  /\ setup' = [setup EXCEPT !.targetLabel = value]
  /\ stored' = persist(stored, setup', ok)
  /\ writeOk' = ok
  /\ UNCHANGED <<variant, marches, targetH, targetM, targetS, plan, note,
                 nowEpoch, targetEpoch, abs, nextId, arg, result, raw, toolVars>>

addMember(cap, ok) ==
  /\ variant = "setup"
  /\ Rendered(setup)
  /\ Len(setup.members) < cap
  /\ setup' = [setup EXCEPT !.members =
                 Append(@, [id |-> freshMemberId, name |-> "", m |-> <<"0">>,
                            s |-> <<"0">>, marchSec |-> 0])]
  /\ stored' = persist(stored, setup', ok)
  /\ writeOk' = ok
  /\ UNCHANGED <<variant, marches, targetH, targetM, targetS, plan, note,
                 nowEpoch, targetEpoch, abs, nextId, arg, result, raw, toolVars>>

\* Mutant: editing the seconds keeps the old marchSec.
updatedMember_staleSec(m, field, value) ==
  IF field = "name" THEN [m EXCEPT !.name = value]
  ELSE IF field = "m" THEN [m EXCEPT !.m = value, !.marchSec = toSec(value, m.s)]
  ELSE [m EXCEPT !.s = value]

updatedMember(m, field, value) ==
  IF field = "name" THEN [m EXCEPT !.name = value]
  ELSE IF field = "m" THEN [m EXCEPT !.m = value, !.marchSec = toSec(value, m.s)]
  ELSE [m EXCEPT !.s = value, !.marchSec = toSec(m.m, value)]

updateMember(id, field, value, ok) ==
  /\ variant = "setup"
  /\ Rendered(setup)
  /\ setup' = [setup EXCEPT !.members =
                 [i \in 1..Len(@) |->
                    IF @[i].id # id THEN @[i] ELSE updatedMember(@[i], field, value)]]
  /\ stored' = persist(stored, setup', ok)
  /\ writeOk' = ok
  /\ UNCHANGED <<variant, marches, targetH, targetM, targetS, plan, note,
                 nowEpoch, targetEpoch, abs, nextId, arg, result, raw, toolVars>>

removeMember(id, ok) ==
  /\ variant = "setup"
  /\ Rendered(setup)
  /\ setup' = [setup EXCEPT !.members = filterOut(@, id)]
  /\ stored' = persist(stored, setup', ok)
  /\ writeOk' = ok
  /\ UNCHANGED <<variant, marches, targetH, targetM, targetS, plan, note,
                 nowEpoch, targetEpoch, abs, nextId, arg, result, raw, toolVars>>

(***************************************************************************)
(* The Reinforcement tool page of the Setup build.                         *)
(***************************************************************************)
MaxPlayers == 2

MaxPlayerIds == 2

\* toUTC(epoch): HH:MM:SS of the UTC time of day
toUTC(epoch) == fmt(epoch)

\* Number.isFinite(n) ? Math.max(0, Math.floor(n)) : 0
floorOrZero(n) ==
  IF n.nan \/ n.inf \/ n.neg THEN 0 ELSE n.int

toSecLocal(m, s) == floorOrZero(Number(m)) * 60 + floorOrZero(Number(s))

\* Number(e.target.value) || 0, for text that denotes a whole number or none
offsetOf(text) ==
  LET n == Number(text)
  IN  IF n.nan THEN 0 ELSE IF n.neg THEN 0 - n.int ELSE n.int

\* String(n) of a natural number
RECURSIVE decimalText(_)
decimalText(n) ==
  LET d == <<"0", "1", "2", "3", "4", "5", "6", "7", "8", "9">>[(n % 10) + 1]
  IN  IF n < 10 THEN <<d>> ELSE Append(decimalText(n \div 10), d)

blankPlayer(id) == [id |-> id, leader |-> "", m |-> <<"0">>, s |-> <<"0">>]

InitTool ==
  /\ oppRallyM = <<"0">>
  /\ oppRallyS = <<"0">>
  /\ oppMarchM = <<"0">>
  /\ oppMarchS = <<"0">>
  /\ offsetSec = 1
  /\ players = <<blankPlayer(1)>>
  /\ playerNextId = 2
  /\ launchUTC = <<>>
  /\ impactUTC = <<>>
  /\ impactEpoch = 0
  /\ results = Null

plannerVars == <<variant, marches, targetH, targetM, targetS, setup,
                 plan, note, nowEpoch, targetEpoch, abs, nextId,
                 arg, result, raw, stored, writeOk>>

setOppRallyM(value) ==
  /\ variant = "setup"
  /\ oppRallyM' = value
  /\ UNCHANGED <<plannerVars, oppRallyS, oppMarchM, oppMarchS, offsetSec,
                 players, playerNextId, launchUTC, impactUTC, impactEpoch, results>>

setOppRallyS(value) ==
  /\ variant = "setup"
  /\ oppRallyS' = value
  /\ UNCHANGED <<plannerVars, oppRallyM, oppMarchM, oppMarchS, offsetSec,
                 players, playerNextId, launchUTC, impactUTC, impactEpoch, results>>

setOppMarchM(value) ==
  /\ variant = "setup"
  /\ oppMarchM' = value
  /\ UNCHANGED <<plannerVars, oppRallyM, oppRallyS, oppMarchS, offsetSec,
                 players, playerNextId, launchUTC, impactUTC, impactEpoch, results>>

setOppMarchS(value) ==
  /\ variant = "setup"
  /\ oppMarchS' = value
  /\ UNCHANGED <<plannerVars, oppRallyM, oppRallyS, oppMarchM, offsetSec,
                 players, playerNextId, launchUTC, impactUTC, impactEpoch, results>>

setOffsetSec(text) ==
  /\ variant = "setup"
  /\ offsetSec' = offsetOf(text)
  /\ UNCHANGED <<plannerVars, oppRallyM, oppRallyS, oppMarchM, oppMarchS,
                 players, playerNextId, launchUTC, impactUTC, impactEpoch, results>>

toolFrame ==
  UNCHANGED <<plannerVars, oppRallyM, oppRallyS, oppMarchM, oppMarchS, offsetSec,
              launchUTC, impactUTC, impactEpoch, results>>

addRow(cap) ==
  /\ variant = "setup"
  /\ Len(players) < cap
  /\ playerNextId <= MaxPlayerIds
  /\ players' = Append(players, blankPlayer(playerNextId))
  /\ playerNextId' = playerNextId + 1
  /\ toolFrame

removeRow(id) ==
  /\ variant = "setup"
  /\ players' = (IF Len(players) > 1 THEN filterOut(players, id) ELSE players)
  /\ UNCHANGED playerNextId
  /\ toolFrame

updateField(id, field, value) ==
  /\ variant = "setup"
  /\ players' = [i \in 1..Len(players) |->
                   IF players[i].id # id THEN players[i]
                   ELSE IF field = "m" THEN [players[i] EXCEPT !.m = value]
                   ELSE [players[i] EXCEPT !.s = value]]
  /\ UNCHANGED playerNextId
  /\ toolFrame

moveRowUp(idx) ==
  /\ variant = "setup"
  /\ players' = (IF idx > 0 THEN swap(players, idx, idx + 1) ELSE players)
  /\ UNCHANGED playerNextId
  /\ toolFrame

moveRowDown(idx) ==
  /\ variant = "setup"
  /\ players' = (IF idx >= Len(players) - 1 THEN players
                 ELSE swap(players, idx + 2, idx + 1))
  /\ UNCHANGED playerNextId
  /\ toolFrame

\* The row after a leader is chosen: the member's stored march time fills
\* the m and s fields when Setup has a member of that name.
selectedLeader(r, leader) ==
  LET member == find(setup.members, leader)
  IN  IF Len(member) = 0 THEN [r EXCEPT !.leader = leader]
      ELSE [r EXCEPT !.leader = leader,
                     !.m = decimalText(mmss(member[1].marchSec)[1]),
                     !.s = decimalText(mmss(member[1].marchSec)[2])]

onSelectLeader(id, leader) ==
  /\ variant = "setup"
  /\ players' = [i \in 1..Len(players) |->
                   IF players[i].id # id THEN players[i]
                   ELSE selectedLeader(players[i], leader)]
  /\ UNCHANGED playerNextId
  /\ toolFrame

canCalc ==
  /\ toSec(oppRallyM, oppRallyS) > 0
  /\ \E i \in 1..Len(players) : toSecLocal(players[i].m, players[i].s) > 0

RECURSIVE positivePlayers(_)
positivePlayers(rs) ==
  IF Len(rs) = 0 THEN <<>>
  ELSE IF toSecLocal(Head(rs).m, Head(rs).s) > 0
       THEN <<Head(rs)>> \o positivePlayers(Tail(rs))
       ELSE positivePlayers(Tail(rs))

\* One entry of res: sendEpoch and ourSec are kept beside the displayed text.
sendRow(r, target, offset) ==
  [id |-> r.id,
   name |-> IF r.leader = "" THEN "Player" ELSE r.leader,
   ourSec |-> toSecLocal(r.m, r.s),
   sendEpoch |-> target + offset - toSecLocal(r.m, r.s),
   sendUTC |-> toUTC(target + offset - toSecLocal(r.m, r.s))]

sendRows(rs, target, offset) ==
  [i \in 1..Len(rs) |-> sendRow(rs[i], target, offset)]

onCalculateTool(now) ==
  /\ variant = "setup"
  /\ launchUTC' = toUTC(now + toSec(oppRallyM, oppRallyS))
  /\ impactEpoch' = now + toSec(oppRallyM, oppRallyS) + toSec(oppMarchM, oppMarchS)
  /\ impactUTC' = toUTC(impactEpoch')
  /\ results' = Plan(sendRows(positivePlayers(players), impactEpoch', offsetSec))
  /\ UNCHANGED <<plannerVars, oppRallyM, oppRallyS, oppMarchM, oppMarchS, offsetSec,
                 players, playerNextId>>

\* What the user types into the tool's fields.
OppRallyMinutes == {<<"3">>}

OppRallySeconds == {<<"0">>}

OppMarchMinutes == {<<"0">>}

OppMarchSeconds == {<<"3", "0">>}

OffsetTexts == {<<"-", "5">>, <<"x">>}

PlayerMinutes == {<<"1">>}

PlayerSeconds == {<<"0">>}

ToolLeaders == {"A"}

\* Clock reading at Calculate: 23:58:20.
ToolNows == {T0 + 86300}

PlayerIds == {players[i].id : i \in 1..Len(players)}

InitReinforce ==
  /\ InitTool
  /\ variant = "setup"
  /\ marches = <<blankRow(1)>>
  /\ nextId = 2
  /\ targetH = <<"0">>
  /\ targetM = <<"0">>
  /\ targetS = <<"0">>
  /\ setup = SetupData("Castle", Roster)
  /\ raw = Json(setup)
  /\ stored = raw
  /\ writeOk = TRUE
  /\ plan = Null
  /\ note = NoNote
  /\ nowEpoch = 0
  /\ targetEpoch = 0
  /\ abs = <<>>
  /\ arg = <<>>
  /\ result = <<>>

NextReinforce ==
  \/ \E v \in OppRallyMinutes : setOppRallyM(v)
  \/ \E v \in OppRallySeconds : setOppRallyS(v)
  \/ \E v \in OppMarchMinutes : setOppMarchM(v)
  \/ \E v \in OppMarchSeconds : setOppMarchS(v)
  \/ \E t \in OffsetTexts : setOffsetSec(t)
  \/ addRow(MaxPlayers)
  \/ \E id \in PlayerIds : removeRow(id)
  \/ \E id \in PlayerIds, v \in PlayerMinutes : updateField(id, "m", v)
  \/ \E id \in PlayerIds, v \in PlayerSeconds : updateField(id, "s", v)
  \/ \E idx \in 0..(Len(players) - 1) : moveRowUp(idx)
  \/ \E idx \in 0..(Len(players) - 1) : moveRowDown(idx)
  \/ \E id \in PlayerIds, l \in ToolLeaders : onSelectLeader(id, l)
  \/ \E now \in ToolNows : onCalculateTool(now)

SpecReinforce == InitReinforce /\ [][NextReinforce]_vars

(***************************************************************************)
(* The editable row lists on their own: the list of every planner build    *)
(* and the players of the Reinforcement tool, from any list of 1..MaxRows  *)
(* rows that adding has built.                                             *)
(***************************************************************************)
Ids == {marches[i].id : i \in 1..Len(marches)}

ListNames == {"A"}

ListMinutes == {<<"1">>}

ListLeaders == {"A"}

InitLists ==
  /\ InitTool
  /\ variant \in Variants
  /\ \E n \in 1..MaxRows :
       /\ marches = [i \in 1..n |-> blankRow(i)]
       /\ nextId = n + 1
  /\ targetH = <<"0">>
  /\ targetM = <<"0">>
  /\ targetS = <<"0">>
  /\ raw = Absent
  /\ setup = loadSetup(raw)
  /\ stored = (IF variant = "setup" THEN persist(raw, setup, TRUE) ELSE raw)
  /\ writeOk = TRUE
  /\ plan = Null
  /\ note = NoNote
  /\ nowEpoch = 0
  /\ targetEpoch = 0
  /\ abs = <<>>
  /\ arg = <<>>
  /\ result = <<>>

NextLists ==
  \/ addMarch
  \/ \E id \in Ids : removeMarch(id)
  \/ \E id \in Ids, v \in ListNames : updateMarch(id, "name", v)
  \/ \E id \in Ids, v \in ListMinutes : updateMarch(id, "m", v)
  \/ \E id \in Ids, l \in ListLeaders : updateLeader(id, l)
  \/ \E idx \in 0..(Len(marches) - 1) : moveUp(idx)
  \/ \E idx \in 0..(Len(marches) - 1) : moveDown(idx)
  \/ onReset
  \/ addRow(MaxPlayers)
  \/ \E id \in PlayerIds : removeRow(id)
  \/ \E id \in PlayerIds, v \in ListMinutes : updateField(id, "m", v)
  \/ \E idx \in 0..(Len(players) - 1) : moveRowUp(idx)
  \/ \E idx \in 0..(Len(players) - 1) : moveRowDown(idx)

SpecLists == InitLists /\ [][NextLists]_vars

(***************************************************************************)
(* One row of the Setup build's planner and its effective duration, over   *)
(* Setup records with distinct, repeated and empty member names.           *)
(***************************************************************************)
Twins == <<Member(101, "A", <<"0">>, <<"3", "0">>),
           Member(102, "A", <<"1">>, <<"3", "0">>),
           Member(103, "", <<"3">>, <<"0">>)>>

EffectiveSetups == {EmptySetup, SetupData("Castle", Roster), SetupData("Castle", Twins)}

EffectiveLeaders == {"", "A", "B", "Z"}

EffectiveCustomM == {<<>>, <<"0">>, <<"1">>}

EffectiveCustomS == {<<"0">>, <<"1", "0">>, <<"-", "5">>}

InitEffective ==
  /\ InitTool
  /\ variant = "setup"
  /\ marches = <<blankRow(1)>>
  /\ nextId = 2
  /\ targetH = <<"0">>
  /\ targetM = <<"0">>
  /\ targetS = <<"0">>
  /\ setup \in EffectiveSetups
  /\ raw = Json(setup)
  /\ stored = raw
  /\ writeOk = TRUE
  /\ plan = Null
  /\ note = NoNote
  /\ nowEpoch = 0
  /\ targetEpoch = 0
  /\ abs = <<>>
  /\ arg = <<>>
  /\ result = <<>>

NextEffective ==
  \/ \E id \in Ids, l \in EffectiveLeaders : updateLeader(id, l)
  \/ \E id \in Ids, on \in {"undefined", "false"} : toggleEdit(id, on)
  \/ \E id \in Ids, v \in EffectiveCustomM : setCustom(id, "customM", v)
  \/ \E id \in Ids, v \in EffectiveCustomS : setCustom(id, "customS", v)
  \/ \E id \in Ids : clearCustom(id)

SpecEffective == InitEffective /\ [][NextEffective]_vars

(***************************************************************************)
(* The members of the Setup page, edited from the empty Setup.             *)
(***************************************************************************)
MaxRoster == 2

RosterNames == {"A"}

RosterMinutes == {<<"1">>, <<"-", "2">>}

RosterSeconds == {<<"3", "0">>}

InitMembers ==
  /\ InitTool
  /\ variant = "setup"
  /\ marches = <<blankRow(1)>>
  /\ nextId = 2
  /\ targetH = <<"0">>
  /\ targetM = <<"0">>
  /\ targetS = <<"0">>
  /\ raw = Absent
  /\ setup = loadSetup(raw)
  /\ stored = persist(raw, setup, TRUE)
  /\ writeOk = TRUE
  /\ plan = Null
  /\ note = NoNote
  /\ nowEpoch = 0
  /\ targetEpoch = 0
  /\ abs = <<>>
  /\ arg = <<>>
  /\ result = <<>>

NextMembers ==
  \/ addMember(MaxRoster, TRUE)
  \/ \E id \in MemberIds, v \in RosterNames : updateMember(id, "name", v, TRUE)
  \/ \E id \in MemberIds, v \in RosterMinutes : updateMember(id, "m", v, TRUE)
  \/ \E id \in MemberIds, v \in RosterSeconds : updateMember(id, "s", v, TRUE)
  \/ \E id \in MemberIds : removeMember(id, TRUE)

SpecMembers == InitMembers /\ [][NextMembers]_vars

(***************************************************************************)
(* The planner as the user drives it, from construction.                   *)
(***************************************************************************)
Init ==
  /\ InitTool
  /\ variant \in Variants
  /\ marches = <<blankRow(1)>>
  /\ nextId = 2
  /\ targetH = <<"0">>
  /\ targetM = <<"0">>
  /\ targetS = <<"0">>
  /\ raw = Absent
  /\ setup = loadSetup(raw)
  /\ stored = (IF variant = "setup" THEN persist(raw, setup, TRUE) ELSE raw)
  /\ writeOk = TRUE
  /\ plan = Null
  /\ note = NoNote
  /\ nowEpoch = 0
  /\ targetEpoch = 0
  /\ abs = <<>>
  /\ arg = <<>>
  /\ result = <<>>

\* Values the user types while editing (the fields start at "0" / "").
EditMinutes == {<<"0">>, <<"1">>}

EditSeconds == {<<"0">>, <<"3", "0">>}

EditNames == {"", "A"}

EditLeaders == {"", "A"}

EditCustomM == {<<"0">>}

EditCustomS == {<<"1", "0">>}

\* Clock readings while editing: noon and 23:58:20.
EditNows == {T0 + 43200, T0 + 86300}

\* Clock reading of the Setup build's planner while editing: 23:58:20.
EditNowsSetup == {T0 + 86300}

EditTargets == {<<<<"0">>, <<"5">>, <<"0">>>>}

EditLabels == {"Castle"}

EditMemberNames == {"A"}

EditMemberM == {<<"1">>}

Next ==
  \/ addMarch
  \/ \E id \in Ids : removeMarch(id)
  \/ \E id \in Ids : \E v \in EditMinutes : updateMarch(id, "m", v)
  \/ \E id \in Ids : \E v \in EditSeconds : updateMarch(id, "s", v)
  \/ \E id \in Ids : \E v \in EditNames : updateMarch(id, "name", v)
  \/ \E id \in Ids : \E l \in EditLeaders : updateLeader(id, l)
  \/ \E idx \in 0..(Len(marches) - 1) : moveUp(idx)
  \/ \E idx \in 0..(Len(marches) - 1) : moveDown(idx)
  \/ \E id \in Ids : \E on \in {"true", "false"} : toggleEdit(id, on)
  \/ \E id \in Ids : \E v \in EditCustomM : setCustom(id, "customM", v)
  \/ \E id \in Ids : \E v \in EditCustomS : setCustom(id, "customS", v)
  \/ \E id \in Ids : clearCustom(id)
  \/ \E t \in EditTargets : setTarget(t[1], t[2], t[3])
  \/ onReset
  \/ \E now \in EditNows : onCalculateTarget(now)
  \/ \E now \in EditNows : onCalculateNow(now)
  \/ \E now \in EditNowsSetup : onCalculateSetup(now)
  \/ \E v \in EditLabels : setTargetLabel(v, TRUE)
  \/ addMember(MaxMembers, TRUE)
  \/ \E id \in MemberIds : \E v \in EditMemberNames : updateMember(id, "name", v, TRUE)
  \/ \E id \in MemberIds : \E v \in EditMemberM : updateMember(id, "m", v, TRUE)
  \/ \E id \in MemberIds : removeMember(id, TRUE)

Spec == Init /\ [][Next]_vars

(***************************************************************************)
(* The schedule builder over bounded inputs: any list the user can have    *)
(* typed, then Calculate at some clock reading.                            *)
(***************************************************************************)
MarchLists ==
  UNION {[1..n -> DurationInputs] : n \in 1..MaxRows}

\* (leader, custom minutes, custom seconds) of a Setup-planner row
SetupRowInputs ==
  {<<"", Undefined, Undefined>>, <<"A", Undefined, Undefined>>,
   <<"B", Undefined, Undefined>>, <<"C", Undefined, Undefined>>,
   <<"A", <<"0">>, <<"1", "0">>>>, <<"", <<"0">>, <<"1", "0">>>>,
   <<"B", <<"0">>, <<"0">>>>}

SetupMarchLists ==
  UNION {[1..n -> SetupRowInputs] : n \in 1..MaxRows}

InitCalc ==
  /\ InitTool
  /\ variant \in Variants
  /\ nextId = MaxRows + 1
  /\ plan = Null
  /\ note = NoNote
  /\ nowEpoch = 0
  /\ targetEpoch = 0
  /\ abs = <<>>
  /\ arg = <<>>
  /\ result = <<>>
  /\ \E t \in (IF variant = "target" THEN TargetInputs ELSE {<<<<"0">>, <<"0">>, <<"0">>>>}) :
        targetH = t[1] /\ targetM = t[2] /\ targetS = t[3]
  /\ setup \in (IF variant = "setup" THEN SetupInputs \ {EmptySetup} ELSE {EmptySetup})
  /\ raw = (IF variant = "setup" THEN Json(setup) ELSE Absent)
  /\ stored = raw
  /\ writeOk = TRUE
  /\ IF variant = "setup"
     THEN \E l \in SetupMarchLists :
            marches = [i \in 1..Len(l) |->
                         SetupMarch(i, l[i][1], "undefined", l[i][2], l[i][3])]
     ELSE \E l \in MarchLists : \E named \in BOOLEAN :
            marches = [i \in 1..Len(l) |->
                         March(i, IF named THEN NameInputs[i] ELSE "", l[i][1], l[i][2])]

NextCalc ==
  \/ \E now \in Nows : onCalculateTarget(now)
  \/ \E now \in Nows : onCalculateNow(now)
  \/ \E now \in Nows : onCalculateSetup(now)

SpecCalc == InitCalc /\ [][NextCalc]_vars

(***************************************************************************)
(* The Setup page from startup: the stored entry is whatever an earlier    *)
(* session, another page or the user left there; the store may reject a    *)
(* write.                                                                  *)
(***************************************************************************)
StoredInputs ==
  {Absent, EmptyText, Garbage, Json(JsonNull), Json(JsonOther),
   Json(SetupData("Castle", <<Member(101, "A", <<"0">>, <<"3", "0">>)>>))}

SetupLabels == {"", "Castle"}

SetupNames == {"A"}

SetupMinutes == {<<"1">>}

SetupSeconds == {<<"3", "0">>}

\* App(): the initializer reads the entry; the first render throws on a
\* value that is no record, otherwise the effect writes the snapshot.
InitSetup ==
  /\ InitTool
  /\ variant = "setup"
  /\ marches = <<blankRow(1)>>
  /\ nextId = 2
  /\ targetH = <<"0">>
  /\ targetM = <<"0">>
  /\ targetS = <<"0">>
  /\ plan = Null
  /\ note = NoNote
  /\ nowEpoch = 0
  /\ targetEpoch = 0
  /\ abs = <<>>
  /\ arg = <<>>
  /\ result = <<>>
  /\ raw \in StoredInputs
  /\ setup = loadSetup(raw)
  /\ writeOk \in BOOLEAN
  /\ Rendered(setup) \/ writeOk
  /\ stored = (IF Rendered(setup) THEN persist(raw, setup, writeOk) ELSE raw)

NextSetup ==
  \/ \E ok \in BOOLEAN : \E v \in SetupLabels : setTargetLabel(v, ok)
  \/ \E ok \in BOOLEAN : addMember(MaxMembers, ok)
  \/ \E ok \in BOOLEAN : \E id \in MemberIds : \E v \in SetupNames :
        updateMember(id, "name", v, ok)
  \/ \E ok \in BOOLEAN : \E id \in MemberIds : \E v \in SetupMinutes :
        updateMember(id, "m", v, ok)
  \/ \E ok \in BOOLEAN : \E id \in MemberIds : \E v \in SetupSeconds :
        updateMember(id, "s", v, ok)
  \/ \E ok \in BOOLEAN : \E id \in MemberIds : removeMember(id, ok)

SpecSetup == InitSetup /\ [][NextSetup]_vars

(***************************************************************************)
(* The text utilities over bounded inputs: a pair of raw minute / second   *)
(* fields is parsed, a number of seconds is formatted and read back.       *)
(***************************************************************************)
InfinityText == <<"I", "n", "f", "i", "n", "i", "t", "y">>

\* Raw field texts, each with what it is: kind and, for a non-negative
\* number, its integer part.
FieldTexts ==
  {[text |-> <<>>, kind |-> "empty", value |-> 0],
   [text |-> <<" ">>, kind |-> "blank", value |-> 0],
   [text |-> <<" ", " ">>, kind |-> "blank", value |-> 0],
   [text |-> <<"a", "b">>, kind |-> "non-numeric", value |-> 0],
   [text |-> <<"1", "a">>, kind |-> "non-numeric", value |-> 0],
   [text |-> <<"1", ".", "2", ".", "3">>, kind |-> "non-numeric", value |-> 0],
   [text |-> <<"-">>, kind |-> "non-numeric", value |-> 0],
   [text |-> <<".">>, kind |-> "non-numeric", value |-> 0],
   [text |-> <<"1", " ", "2">>, kind |-> "non-numeric", value |-> 0],
   [text |-> InfinityText, kind |-> "non-finite", value |-> 0],
   [text |-> <<"-">> \o InfinityText, kind |-> "non-finite", value |-> 0],
   [text |-> <<"-", "5">>, kind |-> "negative", value |-> 0],
   [text |-> <<"-", "0", ".", "5">>, kind |-> "negative", value |-> 0],
   [text |-> <<"-", "1", ".", "5">>, kind |-> "negative", value |-> 0],
   [text |-> <<"1", ".", "5">>, kind |-> "fraction", value |-> 1],
   [text |-> <<"0", ".", "9">>, kind |-> "fraction", value |-> 0],
   [text |-> <<".", "5">>, kind |-> "fraction", value |-> 0],
   [text |-> <<"5", ".">>, kind |-> "integer", value |-> 5],
   [text |-> <<"7">>, kind |-> "integer", value |-> 7],
   [text |-> <<"0", "7">>, kind |-> "integer", value |-> 7],
   [text |-> <<"+", "3">>, kind |-> "integer", value |-> 3],
   [text |-> <<" ", "1", "2", " ">>, kind |-> "integer", value |-> 12],
   [text |-> <<"9", "0">>, kind |-> "integer", value |-> 90]}

Totals == (0..MaxTotal) \cup {86399, 86400, 359999, 360000}

InitText ==
  /\ InitTool
  /\ variant = "setup"
  /\ marches = <<blankRow(1)>>
  /\ nextId = 2
  /\ targetH = <<"0">>
  /\ targetM = <<"0">>
  /\ targetS = <<"0">>
  /\ setup = EmptySetup
  /\ plan = Null
  /\ note = NoNote
  /\ nowEpoch = 0
  /\ targetEpoch = 0
  /\ abs = <<>>
  /\ result = <<>>
  /\ raw = Absent
  /\ stored = Json(setup)
  /\ writeOk = TRUE
  /\ \/ \E m \in FieldTexts : \E s \in FieldTexts :
          arg = [fn |-> "toSec", m |-> m.text, s |-> s.text]
     \/ \E total \in Totals : arg = [fn |-> "hms", total |-> total]

\* toSec applied to the two raw fields of a duration
parseDuration ==
  /\ arg.fn = "toSec"
  /\ result = <<>>
  /\ result' = <<toSec(arg.m, arg.s)>>
  /\ UNCHANGED <<variant, marches, targetH, targetM, targetS, setup, plan, note,
                 nowEpoch, targetEpoch, abs, nextId, arg, raw, stored, writeOk, toolVars>>

\* hms applied to a number of seconds, hmsToSec applied to the text
formatAndParse ==
  /\ arg.fn = "hms"
  /\ result = <<>>
  /\ result' = <<hms(arg.total), hmsToSec(hms(arg.total))>>
  /\ UNCHANGED <<variant, marches, targetH, targetM, targetS, setup, plan, note,
                 nowEpoch, targetEpoch, abs, nextId, arg, raw, stored, writeOk, toolVars>>

NextText ==
  \/ parseDuration
  \/ formatAndParse

SpecText == InitText /\ [][NextText]_vars

(***************************************************************************)
(* Properties of the schedule builder.                                     *)
(***************************************************************************)
PlanRows == plan.rows

SkewMode == variant \in {"now", "setup"}

Computed == ~plan.null /\ Len(plan.rows) > 0 /\ Len(abs) = Len(plan.rows)

SetMax(S) == CHOOSE x \in S : \A y \in S : x >= y

Durations == [k \in 1..Len(PlanRows) |-> PlanRows[k].durationSec]

\* C1: in skew-maximizing mode every row of the computed plan starts its
\* rally no earlier than 40 seconds after the clock reading of the
\* calculation, whatever the durations and their order.
ReadinessFloor ==
  (SkewMode /\ Computed) =>
     \A k \in 1..Len(abs) : abs[k].rallyStart >= nowEpoch + 40

\* C1 witness: a three-row plan whose last march is the longest and whose
\* first row starts later than the floor.
ReadinessFloorWitness ==
  /\ variant = "now"
  /\ Computed
  /\ Durations = <<10, 30, 180>>
  /\ abs[3].rallyStart = nowEpoch + 40
  /\ abs[1].rallyStart > nowEpoch + 40

\* C2: in every computed plan, arrivals at positions i < j differ by exactly
\* (j - i) * 2 seconds, hence are strictly increasing in plan order.
ArrivalSpacing ==
  Computed =>
     \A i, j \in 1..Len(abs) :
        i < j => /\ abs[j].arrival - abs[i].arrival = (j - i) * 2
                 /\ abs[j].arrival > abs[i].arrival

\* C2 witness: a fixed-target plan of three rows with unequal durations.
ArrivalSpacingWitness ==
  /\ variant = "target"
  /\ Computed
  /\ Durations = <<90, 10, 30>>

\* C3: for every row, send = arrival - marchDuration and
\* rallyStart = send - 300 = arrival - marchDuration - 300.
SendAndRallyStart ==
  Computed =>
     \A k \in 1..Len(abs) :
        /\ abs[k].send = abs[k].arrival - PlanRows[k].durationSec
        /\ abs[k].rallyStart = abs[k].send - 300
        /\ abs[k].rallyStart = abs[k].arrival - PlanRows[k].durationSec - 300

\* C3 witness: a Setup-planner plan with a preset and a custom duration.
SendAndRallyStartWitness ==
  /\ variant = "setup"
  /\ Computed
  /\ Durations = <<90, 10>>
  /\ abs[1].send = abs[1].arrival - 90

\* C4: in skew-maximizing mode the first arrival is
\* now + 40 + 300 + max_i(d_i - i*2) over the active rows (0-based i).
FirstArrivalIsMaxSkew ==
  (SkewMode /\ Computed) =>
     abs[1].arrival =
        nowEpoch + 40 + 300
          + SetMax({PlanRows[k].durationSec - (k - 1) * 2 : k \in 1..Len(PlanRows)})

\* C4 witness: the maximum skew is reached by a row other than the first.
FirstArrivalIsMaxSkewWitness ==
  /\ SkewMode
  /\ Computed
  /\ Len(PlanRows) = 3
  /\ PlanRows[1].durationSec = 10
  /\ PlanRows[2].durationSec = 30
  /\ PlanRows[3].durationSec = 10
  /\ abs[1].arrival = nowEpoch + 340 + 28

\* C5: scenario A (30s), B (90s), C (10s) at clock reading T.
ScenarioABC ==
  (SkewMode /\ Computed /\ Durations = <<30, 90, 10>>) =>
     LET T == nowEpoch
     IN  /\ [k \in 1..3 |-> abs[k].arrival] = <<T + 428, T + 430, T + 432>>
         /\ [k \in 1..3 |-> abs[k].send] = <<T + 398, T + 340, T + 422>>
         /\ [k \in 1..3 |-> abs[k].rallyStart] = <<T + 98, T + 40, T + 122>>
         /\ [k \in 1..3 |-> PlanRows[k].startDeltaSec] = <<0, -58, 24>>

\* C5 witness: the scenario itself, with the participants named A, B, C.
ScenarioABCWitness ==
  /\ variant = "now"
  /\ Computed
  /\ Durations = <<30, 90, 10>>
  /\ [k \in 1..3 |-> PlanRows[k].name] = <<"A", "B", "C">>
  /\ Len(marches) = 3

\* C6: startDeltaSec of the row at 0-based position i is i*2 - (d_i - d_0),
\* equals rallyStart_i - rallyStart_0, and is 0 for the first row.
StartDelta ==
  (SkewMode /\ Computed) =>
     /\ PlanRows[1].startDeltaSec = 0
     /\ \A k \in 1..Len(PlanRows) :
           /\ PlanRows[k].startDeltaSec =
                (k - 1) * 2 - (PlanRows[k].durationSec - PlanRows[1].durationSec)
           /\ PlanRows[k].startDeltaSec = abs[k].rallyStart - abs[1].rallyStart

\* C6 witness: one later row starts earlier and one starts later than row 1.
StartDeltaWitness ==
  /\ SkewMode
  /\ Computed
  /\ Len(PlanRows) = 3
  /\ PlanRows[2].startDeltaSec < 0
  /\ PlanRows[3].startDeltaSec > 0

CalcStep ==
  \E now \in Nows : onCalculateTarget(now) \/ onCalculateNow(now) \/ onCalculateSetup(now)

\* C7: when onCalculate is invoked with a list that has no positive march
\* duration, the result is no plan (plan = null) and a non-empty advisory
\* note, in every planner variant.
NoDurationsAdvisory ==
  [][(CalcStep /\ Len(active) = 0) => (plan'.null /\ note'.text # "")]_vars

TargetClock ==
  [h |-> normalizeInt(targetH), m |-> normalizeInt(targetM), s |-> normalizeInt(targetS)]

\* C8: the fixed-target variant uses the entered UTC clock time today if it
\* is >= now, else the same clock time tomorrow (+86400s once); a plan is
\* produced only if that epoch is >= now + 420, so the first arrival of an
\* accepted plan is at least 7 minutes and, for valid clock fields, less
\* than 24 hours after now.
TargetRollAndLead ==
  (variant = "target" /\ nowEpoch # 0) =>
     LET c == TargetClock
         today == nowEpoch - (nowEpoch % 86400) + c.h * 3600 + c.m * 60 + c.s
     IN  /\ targetEpoch = IF today >= nowEpoch THEN today ELSE today + 86400
         /\ ~plan.null => targetEpoch >= nowEpoch + 420
         /\ Computed =>
              /\ abs[1].arrival = targetEpoch
              /\ abs[1].arrival - nowEpoch >= 420
              /\ (c.h <= 23 /\ c.m <= 59 /\ c.s <= 59) =>
                    abs[1].arrival - nowEpoch < 86400

\* C8 witness: at noon a target of 00:05:00 has passed, is rolled to
\* tomorrow and accepted.
TargetRollAndLeadWitness ==
  /\ variant = "target"
  /\ Computed
  /\ nowEpoch = T0 + 43200
  /\ TargetClock = [h |-> 0, m |-> 5, s |-> 0]
  /\ abs[1].arrival = T0 + 86400 + 300

\* C9: when the (rolled) target epoch is less than now + 420 the result is
\* no plan and a notice reporting now + 420 seconds as HH:MM:SS time of day.
TooSoonRejected ==
  (variant = "target" /\ nowEpoch # 0 /\ targetEpoch < nowEpoch + 420) =>
     /\ plan.null
     /\ note.text = "Target arrival must be at least 7 minutes in the future. Earliest allowed: {0}:{1}:{2} UTC."
     /\ Len(note.args) = 3
     /\ note.args[1] \in 0..23
     /\ note.args[2] \in 0..59
     /\ note.args[3] \in 0..59
     /\ note.args[1] * 3600 + note.args[2] * 60 + note.args[3] = (nowEpoch + 420) % 86400

\* C9 witness: at 23:58:20 a target of 00:05:00 is rolled to tomorrow, is
\* only 400s ahead, and the earliest allowed time 00:05:20 is past midnight.
TooSoonRejectedWitness ==
  /\ variant = "target"
  /\ plan.null
  /\ nowEpoch = T0 + 86300
  /\ targetEpoch = T0 + 86400 + 300
  /\ note.text # ""
  /\ note.args = <<0, 5, 20>>

\* C10: an accepted fixed-target calculation assigns arrival_i = target + i*2
\* whatever the durations; a row keeps the 40s read-ahead buffer exactly when
\* d_i <= (target - now) + i*2 - 340.
FixedTargetNoShift ==
  (variant = "target" /\ Computed) =>
     \A k \in 1..Len(abs) :
        /\ abs[k].arrival = targetEpoch + (k - 1) * 2
        /\ (abs[k].rallyStart >= nowEpoch + 40)
             <=> (PlanRows[k].durationSec <= (targetEpoch - nowEpoch) + (k - 1) * 2 - 340)

\* C10 witness: one row keeps the buffer, a longer march has to start its
\* rally before now.
FixedTargetNoShiftWitness ==
  /\ variant = "target"
  /\ Computed
  /\ \E k \in 1..Len(abs) : abs[k].rallyStart >= nowEpoch + 40
  /\ \E k \in 1..Len(abs) : abs[k].rallyStart < nowEpoch

(***************************************************************************)
(* Properties of the text utilities.                                       *)
(***************************************************************************)
FieldOf(text) == CHOOSE f \in FieldTexts : f.text = text

\* What a raw field contributes: the integer part of a non-negative number,
\* 0 for anything else.
Contribution(f) == IF f.kind \in {"fraction", "integer"} THEN f.value ELSE 0

\* C11: toSec of every pair of raw minute / second texts is a non-negative
\* integer: minutes * 60 + seconds, where an empty, blank, non-numeric,
\* non-finite or negative field counts 0 and a non-negative fractional
\* field counts its value truncated toward zero.
DurationParserTotal ==
  (arg # <<>> /\ arg.fn = "toSec" /\ result # <<>>) =>
     /\ result[1] \in Nat
     /\ result[1] = Contribution(FieldOf(arg.m)) * 60 + Contribution(FieldOf(arg.s))

DurationParserTotalWitness ==
  /\ arg # <<>>
  /\ arg.fn = "toSec"
  /\ arg.m = <<"1", ".", "5">>
  /\ arg.s = <<"-", "5">>
  /\ result = <<60>>

\* C12: formatting a non-negative number of seconds with hms and reading
\* the text back with hmsToSec gives the number again.
HmsRoundTrip ==
  (arg # <<>> /\ arg.fn = "hms" /\ result # <<>>) => result[2] = arg.total

HmsRoundTripWitness ==
  /\ arg # <<>>
  /\ arg.fn = "hms"
  /\ arg.total = 3661
  /\ result = <<<<1, 1, 1>>, 3661>>

(***************************************************************************)
(* Properties of the planner as the user drives it.                        *)
(***************************************************************************)
\* The notices with which onCalculate gives up.
AdvisoryTexts ==
  {"Target arrival must be at least 7 minutes in the future. Earliest allowed: {0}:{1}:{2} UTC.",
   "Add at least one march with non-zero time.",
   "Define a target in the Setup page first.",
   "Add at least one member in the Setup page.",
   "Choose at least one leader with a non-zero duration."}

\* A step of onCalculate: the handler writes none of its inputs.
OnCalculateStep ==
  /\ UNCHANGED <<variant, marches, targetH, targetM, targetS, setup, nextId>>
  /\ <<plan, note, abs, nowEpoch, targetEpoch>>' # <<plan, note, abs, nowEpoch, targetEpoch>>
  /\ CalcStep

\* The plan after the step is a new one: one row per row of the list with
\* a positive duration as the list is now, in list order, and no advisory.
FullyReplacedFrom(act) ==
  /\ ~plan'.null
  /\ note'.text \notin AdvisoryTexts
  /\ Len(plan'.rows) = Len(act)
  /\ Len(abs') = Len(act)
  /\ \A k \in 1..Len(act) :
        /\ plan'.rows[k].id = act[k].id
        /\ plan'.rows[k].durationSec = act[k].totalSec
        /\ plan'.rows[k].arrivalTime = fmt(abs'[k].arrival)

FullyReplaced == FullyReplacedFrom(active)

\* C13 as stated: each onCalculate over a displayed plan either fully
\* replaces the plan or leaves it untouched and sets a notice.
RecomputationKeepsPlanOnFailure ==
  [][(OnCalculateStep /\ Len(plan.rows) > 0) =>
       (FullyReplaced \/ (plan' = plan /\ note'.text # ""))]_vars

\* C13 amended: each onCalculate either fully replaces the displayed plan
\* with the new plan or clears it (plan = null) and sets a notice; the plan
\* is never left partly updated, and a failed calculation never keeps it.
RecomputationReplacesOrClears ==
  [][OnCalculateStep => (FullyReplaced \/ (plan' = Null /\ note'.text # ""))]_vars

RecomputationReplacesOrClearsWitness ==
  /\ variant = "now"
  /\ nowEpoch # 0
  /\ plan = Null
  /\ note.text = "Add at least one march with non-zero time."
  /\ \E i \in 1..Len(marches) : marches[i].name = "A"

\* C14: every onCalculate that ends with an advisory notice (no march
\* durations, target arrival too soon, setup incomplete) leaves no plan:
\* plan = null and nothing computed, whatever plan was displayed before.
AdvisoryClearsPlan ==
  [][(OnCalculateStep /\ note'.text \in AdvisoryTexts) => (plan' = Null /\ abs' = <<>>)]_vars

AdvisoryClearsPlanWitness ==
  /\ variant = "target"
  /\ nowEpoch # 0
  /\ targetEpoch - nowEpoch < MIN_LEAD
  /\ plan = Null
  /\ note.text \in AdvisoryTexts

\* C15: the plan and the note change only in a step of onCalculate or of
\* onReset: every list edit and every Setup edit leaves both as they are.
PlanChangesOnlyOnCalculateOrReset ==
  [][(<<plan, note>>' # <<plan, note>>) => (CalcStep \/ onReset)]_vars

\* a plan is displayed, and since it was computed the list was edited and
\* the member it was computed from was removed
PlanChangesOnlyOnCalculateOrResetWitness ==
  /\ variant = "setup"
  /\ ~plan.null
  /\ Len(plan.rows) = 1
  /\ setup.members = <<>>
  /\ Len(marches) = 2
  /\ marches[1].id # plan.rows[1].id

(***************************************************************************)
(* Properties of the plan rows and of the verification summary.            *)
(***************************************************************************)
\* Number of rows with a positive duration among the first i rows of ms.
RECURSIVE PositiveCount(_, _)
PositiveCount(ms, i) ==
  IF i = 0 THEN 0
  ELSE PositiveCount(ms, i - 1) + (IF ms[i].totalSec > 0 THEN 1 ELSE 0)

RowsOfPositiveInputs(ms) ==
  /\ Len(PlanRows) = PositiveCount(ms, Len(ms))
  /\ Len(abs) = Len(PlanRows)
  /\ \A k \in 1..Len(PlanRows) :
        /\ PlanRows[k].seq = k
        /\ PlanRows[k].offsetSec = (k - 1) * 2
        /\ abs[k].arrival = abs[1].arrival + (k - 1) * 2
  /\ \A i \in 1..Len(ms) :
        ms[i].totalSec > 0 =>
           /\ PlanRows[PositiveCount(ms, i)].id = ms[i].id
           /\ PlanRows[PositiveCount(ms, i)].durationSec = ms[i].totalSec

\* C16: the rows of a plan are exactly the rows of the list with a positive
\* march duration, in list order, numbered seq = 1..n with offsetSec =
\* (seq - 1) * 2; a row without a duration takes no arrival slot.
PlanRowsArePositiveInputs ==
  ~plan.null => RowsOfPositiveInputs(marchesWithSec)

\* a plan of two rows from a list of three whose middle row has no duration
PlanRowsArePositiveInputsWitness ==
  /\ ~plan.null
  /\ Len(marches) = 3
  /\ marchesWithSec[1].totalSec > 0
  /\ marchesWithSec[2].totalSec = 0
  /\ marchesWithSec[3].totalSec > 0
  /\ Len(PlanRows) = 2
  /\ PlanRows[2].id = marches[3].id
  /\ PlanRows[2].offsetSec = 2

\* The lines that the page shows under "Verification" for the plan.
Lines == summary(PlanRows)

RallyStartOf(line) == abs[line.seq].rallyStart

\* C17: the summary lists the participants in non-decreasing order of
\* their absolute rally-start time, ties in plan order, for every computed
\* plan, also when the rally starts straddle midnight UTC.
SummaryInAppearanceOrder ==
  (SkewMode /\ Computed) =>
     \A i, j \in 1..Len(Lines) :
        i < j =>
           \/ RallyStartOf(Lines[i]) < RallyStartOf(Lines[j])
           \/ /\ RallyStartOf(Lines[i]) = RallyStartOf(Lines[j])
              /\ Lines[i].seq < Lines[j].seq

\* C18: every line after the first shows the absolute difference of the
\* absolute rally-start times of its participant and of the one listed
\* before it, and as anchor 300 minus that difference, as MM:SS.
SummaryDeltaAndAnchor ==
  (SkewMode /\ Computed) =>
     \A i \in 2..Len(Lines) :
        /\ Lines[i].seconds = Abs(RallyStartOf(Lines[i]) - RallyStartOf(Lines[i - 1]))
        /\ Lines[i].anchor[1] * 60 + Lines[i].anchor[2]
             = 300 - Abs(RallyStartOf(Lines[i]) - RallyStartOf(Lines[i - 1]))
        /\ Lines[i].anchor[2] \in 0..59

(***************************************************************************)
(* Properties of the stored Setup snapshot.                                *)
(***************************************************************************)
\* The entry found at startup holds no {targetLabel, members} record.
AbsentOrMalformed == raw.kind # "json" \/ raw.value.kind # "record"

\* C19: when the entry found at startup is absent or malformed in any way
\* (text that does not parse, or JSON that is no {targetLabel, members}
\* record, such as null), the setup that is loaded is the empty default
\* and the page renders.
StartupFailsSoft ==
  AbsentOrMalformed =>
     /\ loadSetup(raw) = EmptySetup
     /\ Rendered(loadSetup(raw))

\* C20: after every Setup edit whose write the store accepted, the stored
\* snapshot is the current setup, and loading it gives the current setup.
SnapshotEqualsSetup ==
  (Rendered(setup) /\ writeOk) =>
     /\ stored = Json(setup)
     /\ loadSetup(stored) = setup

\* a member was added and given 1m 30s after a rejected first write
SnapshotEqualsSetupWitness ==
  /\ raw = Garbage
  /\ writeOk
  /\ Len(setup.members) = 1
  /\ setup.members[1].marchSec = 90
  /\ setup.targetLabel = "Castle"
  /\ stored = Json(setup)

(***************************************************************************)
(* The Reinforcement tool: arrival after the opponent's impact.            *)
(***************************************************************************)
ResultRows == IF results.null THEN <<>> ELSE results.rows

\* C21: every computed reinforcement arrives at or after the opponent's
\* impact: for every result row, send + playerMarch >= impact, whatever the
\* offset field holds.
ReinforcementsArriveAfterImpact ==
  \A i \in 1..Len(ResultRows) :
    ResultRows[i].sendEpoch + ResultRows[i].ourSec >= impactEpoch


(***************************************************************************)
(* Reordering the planner list.                                            *)
(***************************************************************************)
\* b holds the rows of a, each once, in some order (row ids are unique).
IsPermutation(a, b) ==
  /\ Len(a) = Len(b)
  /\ \A i \in 1..Len(a) : \E j \in 1..Len(b) : b[j] = a[i]
  /\ \A j \in 1..Len(b) : \E i \in 1..Len(a) : a[i] = b[j]

\* b is a with the rows at 0-based places i and j exchanged, all others kept.
Exchanged(a, b, i, j) ==
  /\ Len(b) = Len(a)
  /\ b[i + 1] = a[j + 1]
  /\ b[j + 1] = a[i + 1]
  /\ \A k \in 1..Len(a) : k \notin {i + 1, j + 1} => b[k] = a[k]

\* C22: for every list and every idx in 0..len-1, moveUp(idx) with idx > 0
\* exchanges rows idx-1 and idx, moveDown(idx) with idx < len-1 exchanges
\* rows idx and idx+1, moveUp(0) and moveDown(len-1) change nothing, every
\* move yields a permutation of the same rows, and moveUp(idx) followed by
\* moveDown(idx-1) restores the order.
ReorderingIsIndexSwap ==
  \A idx \in 0..(Len(marches) - 1) :
    /\ idx > 0 => Exchanged(marches, movedUp(marches, idx), idx - 1, idx)
    /\ idx = 0 => movedUp(marches, idx) = marches
    /\ idx < Len(marches) - 1 => Exchanged(marches, movedDown(marches, idx), idx, idx + 1)
    /\ idx = Len(marches) - 1 => movedDown(marches, idx) = marches
    /\ IsPermutation(marches, movedUp(marches, idx))
    /\ IsPermutation(marches, movedDown(marches, idx))
    /\ idx > 0 => movedDown(movedUp(marches, idx), idx - 1) = marches

\* A three-row list whose middle row has been edited and moved to the top.
ReorderingIsIndexSwapWitness ==
  /\ Len(marches) = 3
  /\ marches[1].id = 2
  /\ marches[2].id = 1
  /\ marches[3].id = 3
  /\ marches[1] # blankRow(2)


(***************************************************************************)
(* The effective march duration of a Setup-planner row.                    *)
(***************************************************************************)
\* Places of the Setup members whose name is the leader.
Named(leader) == {k \in 1..Len(setup.members) : setup.members[k].name = leader}

\* marchSec of the first member of that name, 0 when there is none.
PresetOf(leader) ==
  IF Named(leader) = {} THEN 0
  ELSE setup.members[CHOOSE k \in Named(leader) : \A j \in Named(leader) : k <= j].marchSec

CustomOf(row) == toSec(row.customM, row.customS)

\* C23: a planner row's effective duration is its custom override
\* toSec(customM, customS) when that is > 0, otherwise the marchSec of the
\* first Setup member named as the row's leader, otherwise 0; it is a
\* non-negative integer, a custom value of zero never overrides the preset,
\* and clearing the custom value gives the preset.
EffectiveDuration ==
  \A i \in 1..Len(marches) :
    /\ marchesWithSec[i].totalSec =
         (IF CustomOf(marches[i]) > 0 THEN CustomOf(marches[i])
          ELSE PresetOf(marches[i].leader))
    /\ marchesWithSec[i].totalSec \in Nat
    /\ CustomOf(marches[i]) = 0 =>
         marchesWithSec[i].totalSec = PresetOf(marches[i].leader)
    /\ getEffectiveSec(withoutCustom(marches[i])) = PresetOf(marches[i].leader)

\* A row whose leader names two members, with a custom value of zero typed
\* in: the first member's 30 seconds apply.
EffectiveDurationWitness ==
  /\ \E j, k \in Named(marches[1].leader) : j # k
  /\ marches[1].customM = <<"0">>
  /\ marches[1].customS = <<"0">>
  /\ marchesWithSec[1].totalSec = 30


(***************************************************************************)
(* Tightness of the skew-maximizing schedule.                              *)
(***************************************************************************)
RallyStarts == {abs[k].rallyStart : k \in 1..Len(abs)}

\* C24: in every plan computed in skew-maximizing mode the minimum over the
\* rows of rallyStart is exactly now + 40: some participant starts their
\* rally at the readiness floor and none before it, so no earlier first
\* arrival keeps both the gap and the floor.
ScheduleIsTight ==
  (SkewMode /\ ~plan.null) =>
     /\ nowEpoch + 40 \in RallyStarts
     /\ \A t \in RallyStarts : t >= nowEpoch + 40

\* Three rows of 30, 90 and 10 seconds: only the middle one is at the floor.
ScheduleIsTightWitness ==
  /\ SkewMode
  /\ Computed
  /\ Durations = <<30, 90, 10>>
  /\ abs[2].rallyStart = nowEpoch + 40
  /\ abs[1].rallyStart = nowEpoch + 98
  /\ abs[3].rallyStart = nowEpoch + 122


(***************************************************************************)
(* Rows of the Setup build's planner with no leader selected.              *)
(***************************************************************************)
PlanIds == {PlanRows[k].id : k \in 1..Len(PlanRows)}

\* C25: in the planner with Setup a row with no leader selected
\* (leader = "") and no custom duration > 0 has effective duration 0 and
\* is in no displayed plan computed from the list, for every Setup record.
UnselectedRowsStayOut ==
  (variant = "setup" /\ Rendered(setup)) =>
     \A i \in 1..Len(marches) :
        (marches[i].leader = "" /\ CustomOf(marches[i]) = 0) =>
           /\ marchesWithSec[i].totalSec = 0
           /\ marches[i].id \notin PlanIds


(***************************************************************************)
(* The Calculate guard and the handler of the skew-maximizing planners.    *)
(***************************************************************************)
\* C26: in the skew-maximizing planners, whenever the Calculate button is
\* enabled (isCalculateDisabled = false) onCalculate produces a plan of at
\* least one row and no advisory notice; an advisory (no plan) results only
\* when the button is disabled.
GuardAgreesWithHandler ==
  [][(SkewMode /\ CalcStep) =>
       /\ ~isCalculateDisabled =>
            (~plan'.null /\ Len(plan'.rows) >= 1 /\ note'.text \notin AdvisoryTexts)
       /\ (plan'.null \/ note'.text \in AdvisoryTexts) => isCalculateDisabled]_vars

\* A plan computed by the Setup build from a state where the button is
\* enabled by a custom duration alone.
GuardAgreesWithHandlerWitness ==
  /\ variant = "setup"
  /\ ~isCalculateDisabled
  /\ Computed
  /\ note.text \notin AdvisoryTexts
  /\ \A i \in 1..Len(marches) : getPresetSec(marches[i].leader) = 0


(***************************************************************************)
(* The editable row lists.                                                 *)
(***************************************************************************)
\* C27: in every planner build and in the Reinforcement tool the editable
\* row list never becomes empty: after any sequence of add, remove, move,
\* update and reset operations it has at least one row.
RowListsNeverEmpty ==
  /\ Len(marches) >= 1
  /\ Len(players) >= 1

\* After a reset, and after the tool's first player was removed: the
\* planner shows the single fresh row, the tool a single later player.
RowListsNeverEmptyWitness ==
  /\ variant = "setup"
  /\ Len(marches) = 1
  /\ marches[1].id = 2
  /\ nextId = 3
  /\ Len(players) = 1
  /\ players[1].id = 2


(***************************************************************************)
(* The stored march time of the Setup members.                             *)
(***************************************************************************)
MarchSecOf(m) == normalizeInt(m.m) * 60 + normalizeInt(m.s)

\* The members differ in one place at most, and only in the fields of that
\* member: ids and order are the same.
OneMemberEdited(before, after) ==
  /\ Len(after) = Len(before)
  /\ \A k \in 1..Len(before) : after[k].id = before[k].id
  /\ \A j, k \in 1..Len(before) :
       (after[j] # before[j] /\ after[k] # before[k]) => j = k

\* C28: after any sequence of addMember, updateMember and removeMember from
\* the empty Setup, every member's stored marchSec is
\* normalizeInt(m) * 60 + normalizeInt(s) of its current m and s, and a step
\* that edits a member leaves every other member and the order unchanged.
MarchSecFollowsFields ==
  [][/\ \A k \in 1..Len(setup'.members) :
          setup'.members[k].marchSec = MarchSecOf(setup'.members[k])
     /\ Len(setup'.members) = Len(setup.members) =>
          OneMemberEdited(setup.members, setup'.members)]_vars

\* Two members, the second one edited to 1:30 while the first is untouched.
MarchSecFollowsFieldsWitness ==
  /\ Len(setup.members) = 2
  /\ setup.members[1] = [id |-> 101, name |-> "", m |-> <<"0">>, s |-> <<"0">>, marchSec |-> 0]
  /\ setup.members[2].m = <<"1">>
  /\ setup.members[2].s = <<"3", "0">>
  /\ setup.members[2].marchSec = 90


(***************************************************************************)
(* The wording of the verification summary.                                *)
(***************************************************************************)
\* The rally start of a line's participant as the summary reads it: the
\* seconds of the day of the displayed HH:MM:SS.
ShownStart(line) == hmsToSec(PlanRows[line.seq].rallyStartTime)

\* C29: in the verification summary the delta between consecutive listed
\* participants is never negative: every line after the first says "more",
\* never "less", for every plan.
SummaryNeverSaysLess ==
  (SkewMode /\ Computed) =>
     \A i \in 2..Len(Lines) :
        /\ ShownStart(Lines[i]) - ShownStart(Lines[i - 1]) >= 0
        /\ Lines[i].wording = "more"

\* A summary of three lines that lists the second row of the plan first.
SummaryNeverSaysLessWitness ==
  /\ SkewMode
  /\ Computed
  /\ Len(Lines) = 3
  /\ Lines[1].seq = 2
  /\ Lines[2].seq = 1
  /\ Lines[2].wording = "more"
  /\ Lines[2].seconds > 0
  /\ Lines[3].wording = "more"

=============================================================================
